---- MODULE Spec2Model ----
(***************************************************************************)
(* State-machine model of the metadata-based photo categorization pipeline *)
(* (detectDuplicatesAndSimilar in src/src/utils/photoDetection.js) and of  *)
(* the signature helpers it imports (generateImageSignature, simpleHash,   *)
(* extractFileName in src/src/utils/storage.js).                           *)
(*                                                                         *)
(* Conventions                                                             *)
(*  - A JavaScript string is a sequence of one-character strings.          *)
(*  - A JavaScript object is a record; an absent property is a field that  *)
(*    is not in the record's DOMAIN.                                       *)
(*  - Loop counters (batchStart, index) keep the source's 0-based values;  *)
(*    the element at JavaScript index i is the TLA+ element i + 1.         *)
(*  - A 32-bit integer is a pair <<hi, lo>> of 16-bit halves, so that the  *)
(*    wrap at 2^32 is computed and not assumed.                            *)
(*  - An epoch-millisecond time is a pair <<minute, ms>> standing for      *)
(*    minute * 60000 + ms with 0 <= ms < 60000.                            *)
(***************************************************************************)
EXTENDS Integers, Sequences, FiniteSets, TLC

(***************************************************************************)
(* Characters and strings                                                  *)
(***************************************************************************)
Digits == <<"0", "1", "2", "3", "4", "5", "6", "7", "8", "9">>

Lower ==
  <<"a", "b", "c", "d", "e", "f", "g", "h", "i", "j", "k", "l", "m",
    "n", "o", "p", "q", "r", "s", "t", "u", "v", "w", "x", "y", "z">>

Upper ==
  <<"A", "B", "C", "D", "E", "F", "G", "H", "I", "J", "K", "L", "M",
    "N", "O", "P", "Q", "R", "S", "T", "U", "V", "W", "X", "Y", "Z">>

Range(s) == {s[i] : i \in DOMAIN s}

IndexIn(s, c) == CHOOSE i \in DOMAIN s : s[i] = c

DigitSet == Range(Digits)

UpperSet == Range(Upper)

Punctuation ==
  [c \in {" ", "(", ")", "-", ".", "/", "_", "|"} |->
     CASE c = " " -> 32
       [] c = "(" -> 40
       [] c = ")" -> 41
       [] c = "-" -> 45
       [] c = "." -> 46
       [] c = "/" -> 47
       [] c = "_" -> 95
       [] c = "|" -> 124]

\* The UTF-16 code of each character the inputs use.
CharCodes ==
  [c \in DigitSet |-> 47 + IndexIn(Digits, c)]
  @@ [c \in UpperSet |-> 64 + IndexIn(Upper, c)]
  @@ [c \in Range(Lower) |-> 96 + IndexIn(Lower, c)]
  @@ Punctuation

LowerOf == [c \in UpperSet |-> Lower[IndexIn(Upper, c)]]

IsDigit(c) == c \in DigitSet

IsSpace(c) == c = " "

\* String.prototype.charCodeAt
CharCode(c) == CharCodes[c]

LowerChar(c) == IF c \in UpperSet THEN LowerOf[c] ELSE c

\* String.prototype.toLowerCase
ToLowerCase(s) == [i \in DOMAIN s |-> LowerChar(s[i])]

RECURSIVE ToDecimal(_)
\* Number.prototype.toString() of a non-negative integer.
ToDecimal(n) ==
  IF n < 10 THEN <<Digits[n + 1]>>
  ELSE Append(ToDecimal(n \div 10), Digits[(n % 10) + 1])

RECURSIVE Join(_, _)
\* Array.prototype.join(sep) of an array of strings.
Join(parts, sep) ==
  IF Len(parts) = 0 THEN <<>>
  ELSE IF Len(parts) = 1 THEN parts[1]
  ELSE parts[1] \o sep \o Join(Tail(parts), sep)

(***************************************************************************)
(* extractFileName and the filename normalisation                          *)
(***************************************************************************)
\* uri.split('/') : last part, or '' when it is empty.
extractFileName(uri) ==
  LET slashes == {i \in DOMAIN uri : uri[i] = "/"}
      last == IF slashes = {} THEN 0
              ELSE CHOOSE i \in slashes : \A j \in slashes : j <= i
  IN SubSeq(uri, last + 1, Len(uri))

\* First position >= p of s that is not white space (Len(s) + 1 if none).
RECURSIVE SkipSpaces(_, _)
SkipSpaces(s, p) ==
  IF p <= Len(s) /\ IsSpace(s[p]) THEN SkipSpaces(s, p + 1) ELSE p

\* First position >= p of s that is not a digit (Len(s) + 1 if none).
RECURSIVE SkipDigits(_, _)
SkipDigits(s, p) ==
  IF p <= Len(s) /\ IsDigit(s[p]) THEN SkipDigits(s, p + 1) ELSE p

\* "(", one digit or more, ")" from position a of s on: b is the first position
\* after the digits.
CounterAt(s, a, b) ==
  a <= Len(s) /\ s[a] = "(" /\ b > a + 1 /\ b <= Len(s) /\ s[b] = ")"

\* Position after the counter that starts at a and after the white space behind it.
CounterEnd(s, a, b) == IF CounterAt(s, a, b) THEN SkipSpaces(s, b + 1) ELSE 0

\* End (exclusive) of the match of /\s*\([0-9]+\)\s*/ that starts at p,
\* or 0 when the pattern does not match at p.
CounterMatchEnd(s, p) ==
  CounterEnd(s, SkipSpaces(s, p), SkipDigits(s, SkipSpaces(s, p) + 1))

\* The positions of s that lie inside a match, scanning from the left: a match
\* starts at p when the pattern matches there and p is in no earlier match.
RECURSIVE MatchedFrom(_, _, _)
MatchedFrom(s, p, inside) ==
  IF p > Len(s) \/ ~IsFiniteSet(inside) THEN inside
  ELSE IF CounterMatchEnd(s, p) # 0
  THEN MatchedFrom(s, CounterMatchEnd(s, p),
                   inside \cup (p..(CounterMatchEnd(s, p) - 1)))
  ELSE MatchedFrom(s, p + 1, inside)

Outside(s, inside) == SelectSeq([k \in DOMAIN s |-> k], LAMBDA k : k \notin inside)

Pick(s, positions) == [k \in DOMAIN positions |-> s[positions[k]]]

\* .replace(/\s*\([0-9]+\)\s*/g, '')
StripCounters(s) == Pick(s, Outside(s, MatchedFrom(s, 1, {})))

CopyWord == <<"-", "c", "o", "p", "y">>

\* .replace(/-copy/i, '') : the first occurrence only, any letter case.
CopyHits(s) ==
  {p \in 1..(Len(s) - Len(CopyWord) + 1) :
     ToLowerCase(SubSeq(s, p, p + Len(CopyWord) - 1)) = CopyWord}

Least(set) == CHOOSE q \in set : \A r \in set : q <= r

\* s without the len characters from position p on.
Cut(s, p, len) == SubSeq(s, 1, p - 1) \o SubSeq(s, p + len, Len(s))

StripCopyAt(s, hits) == IF hits = {} THEN s ELSE Cut(s, Least(hits), Len(CopyWord))

StripCopy(s) == StripCopyAt(s, CopyHits(s))

\* .replace(/-\d+$/i, '') : a hyphen followed by digits up to the end.
TrailingNumberHits(s) ==
  {p \in DOMAIN s : s[p] = "-" /\ p < Len(s) /\ SkipDigits(s, p + 1) = Len(s) + 1}

StripTrailingNumberAt(s, hits) ==
  IF hits = {} THEN s ELSE SubSeq(s, 1, Least(hits) - 1)

StripTrailingNumber(s) == StripTrailingNumberAt(s, TrailingNumberHits(s))

\* The chain of replacements applied to a file name, at each of its uses.
NormalizeFileName(name) ==
  ToLowerCase(StripTrailingNumber(StripCopy(StripCounters(name))))

(***************************************************************************)
(* 32-bit arithmetic on <<hi, lo>> pairs of 16-bit halves                  *)
(***************************************************************************)
Half == 2 ^ 16

\* value mod 2^32 of hi * 2^16 + lo for halves that may exceed 16 bits
Wrap32(hi, lo) == <<(hi + (lo \div Half)) % Half, lo % Half>>

\* As ShiftLeft5, by four bits.
ShiftLeft4(h) == Wrap32(h[1] * 16, h[2] * 16)

\* hash << 5
ShiftLeft5(h) == Wrap32(h[1] * 32, h[2] * 32)

\* a - b, wrapped to 32 bits
Sub32(a, b) == Wrap32(a[1] - b[1] + Half - 1, a[2] - b[2] + Half)

\* a + c for a small non-negative c, wrapped to 32 bits
AddSmall32(a, c) == Wrap32(a[1], a[2] + c)

\* The sign bit of the 32-bit value.
IsNegative32(h) == h[1] >= Half \div 2

\* Math.abs of the signed 32-bit value, itself as <<hi, lo>> (2^31 is <<32768, 0>>).
Abs32(h) == IF IsNegative32(h) THEN Sub32(<<0, 0>>, h) ELSE h

Base36Digits == Digits \o Lower

RECURSIVE ToBase36(_)
\* Number.prototype.toString(36) of a non-negative value given as <<hi, lo>>.
ToBase36(v) ==
  LET qhi == v[1] \div 36
      mid == (v[1] % 36) * Half + v[2]
      qlo == mid \div 36
      d   == Base36Digits[(mid % 36) + 1]
  IN IF qhi = 0 /\ qlo = 0 THEN <<d>>
     ELSE Append(ToBase36(<<qhi, qlo>>), d)

\* hash is a 32-bit value.
IsInt32(h) == h[1] \in 0..(Half - 1) /\ h[2] \in 0..(Half - 1)

\* hash = ((hash << 5) - hash) + char; hash = hash & hash;
HashStep(hash, char) == AddSmall32(Sub32(ShiftLeft5(hash), hash), char)

RECURSIVE HashFrom(_, _, _)
\* The loop of simpleHash from character i on, hash being the value so far (the
\* value of each step is computed before the next step takes it).
HashFrom(str, i, hash) ==
  IF i > Len(str) THEN hash
  ELSE CHOOSE last \in {HashFrom(str, i + 1, next) :
                          next \in {HashStep(hash, CharCode(str[i]))}} : TRUE

simpleHash(str) == ToBase36(Abs32(HashFrom(str, 1, <<0, 0>>)))

(***************************************************************************)
(* Times: <<minute, ms>> stands for minute * 60000 + ms, 0 <= ms < 60000   *)
(***************************************************************************)
MsPerMinute == 60000

\* a - b as <<minutes, ms>> with 0 <= ms < 60000 (minutes may be negative).
TimeSub(a, b) ==
  IF a[2] >= b[2] THEN <<a[1] - b[1], a[2] - b[2]>>
  ELSE <<a[1] - b[1] - 1, a[2] - b[2] + MsPerMinute>>

\* Math.abs(a - b) < 60000 (TIME_THRESHOLD)
WithinTimeThreshold(a, b) ==
  LET d == TimeSub(a, b)
  IN d[1] = 0 \/ (d[1] = -1 /\ d[2] > 0)

MinutesPerDay == 1440

OldDays == 365

\* (now - creationTime) / (1000 * 60 * 60 * 24) > 365
OlderThanAYear(now, creationTime) ==
  LET d == TimeSub(now, creationTime)
  IN \/ d[1] > OldDays * MinutesPerDay
     \/ (d[1] = OldDays * MinutesPerDay /\ d[2] > 0)

Abs(x) == IF x < 0 THEN -x ELSE x

Min(a, b) == IF a < b THEN a ELSE b

Max(a, b) == IF a > b THEN a ELSE b

(***************************************************************************)
(* generateImageSignature                                                  *)
(***************************************************************************)
\* Reading photo.uri.split of an absent uri throws a TypeError.
HasUri(photo) == "uri" \in DOMAIN photo

BytesPerKB == 1000

\* As RoundedKB, the rounding forgotten.
ExactSize(size) == size

\* Math.round(photo.size / 1000) : halves round up.
RoundedKB(size) == (2 * size + BytesPerKB) \div (2 * BytesPerKB)

\* Math.floor(photo.creationTime / 60000)
timeRounded(creationTime) == creationTime[1]

signatureString(photo) ==
  Join(<<ToDecimal(photo.width),
         ToDecimal(photo.height),
         ToDecimal(RoundedKB(photo.size)),
         ToDecimal(timeRounded(photo.creationTime)),
         NormalizeFileName(extractFileName(photo.uri))>>, <<"|">>)

\* Defined for a photo that has a uri; throws otherwise.
generateImageSignature(photo) == simpleHash(signatureString(photo))

\* `${photo.width}|${photo.height}|${photo.size}`
fallbackSignature(photo) ==
  Join(<<ToDecimal(photo.width), ToDecimal(photo.height), ToDecimal(photo.size)>>,
       <<"|">>)

\* One iteration of the inner loop of the signature phase: try / catch.
WithSignature(photo) ==
  photo @@ [signature |-> IF HasUri(photo) THEN generateImageSignature(photo)
                          ELSE fallbackSignature(photo)]

(***************************************************************************)
(* The categorization of one photo (the body of the second loop)           *)
(***************************************************************************)
PhotoCategory ==
  [DUPLICATE |-> "duplicate", SIMILAR |-> "similar", SCREENSHOT |-> "screenshot",
   LOW_QUALITY |-> "low_quality", BURST |-> "burst", OLD_UNUSED |-> "old_unused"]

\* First pass: signature -> the 0-based indices carrying it, in index order.
BuildSignatureMap(pws) ==
  [sig \in {pws[k].signature : k \in DOMAIN pws} |->
     SelectSeq([k \in 1..Len(pws) |-> k - 1],
               LAMBDA i : pws[i + 1].signature = sig)]

\* signatureMap.get(photo.signature) || []
SameSignaturePhotos(sigMap, photo) ==
  IF photo.signature \in DOMAIN sigMap THEN sigMap[photo.signature] ELSE <<>>

\* The loop over sameSignaturePhotos: every entry but the photo itself.
SignatureDuplicates(sigMap, pws, index) ==
  SelectSeq(SameSignaturePhotos(sigMap, pws[index + 1]), LAMBDA i : i # index)

\* duplicateIds holds the id of every photo pushed to duplicates.
DuplicateIdSet(pws, duplicates) == {pws[duplicates[k] + 1].id : k \in DOMAIN duplicates}

FilenamePassGuard == 10

FilenamePassCap == 20

\* As SkipCandidate, the test of duplicateIds forgotten.
SkipSelfOnly(pws, index, i, duplicates) == i = index

\* if (i === index || duplicateIds.has(photosWithSignatures[i].id)) continue;
SkipCandidate(pws, index, i, duplicates) ==
  i = index \/ pws[i + 1].id \in DuplicateIdSet(pws, duplicates)

RECURSIVE FilenameLoop(_, _, _, _, _)
\* The filename loop from position i on. threw: extractFileName met an absent uri.
FilenameLoop(pws, index, filenameBase, i, duplicates) ==
  IF ~(i < Len(pws) /\ Len(duplicates) < FilenamePassCap)
  THEN [threw |-> FALSE, duplicates |-> duplicates]
  ELSE IF SkipCandidate(pws, index, i, duplicates)
  THEN FilenameLoop(pws, index, filenameBase, i + 1, duplicates)
  ELSE IF ~HasUri(pws[i + 1])
  THEN [threw |-> TRUE, duplicates |-> duplicates]
  ELSE LET otherFilenameBase == NormalizeFileName(extractFileName(pws[i + 1].uri))
       IN IF filenameBase = otherFilenameBase /\ Len(filenameBase) > 0
          THEN FilenameLoop(pws, index, filenameBase, i + 1, Append(duplicates, i))
          ELSE FilenameLoop(pws, index, filenameBase, i + 1, duplicates)

\* As RunsFilenamePass, the pass being run only for a photo without any
\* signature duplicate.
RunsFilenamePassIfNone(duplicates) == Len(duplicates) = 0

\* As RunsFilenamePass, the guard forgotten.
RunsFilenamePassAlways(duplicates) == TRUE

\* if (duplicates.length < 10) { ... }
RunsFilenamePass(duplicates) == Len(duplicates) < FilenamePassGuard

\* duplicates after the signature lookup and the filename pass.
FilenamePass(pws, index, bySignature) ==
  IF ~RunsFilenamePass(bySignature)
  THEN [threw |-> FALSE, duplicates |-> bySignature]
  ELSE IF ~HasUri(pws[index + 1])
  THEN [threw |-> TRUE, duplicates |-> bySignature]
  ELSE FilenameLoop(pws, index,
                    NormalizeFileName(extractFileName(pws[index + 1].uri)),
                    0, bySignature)

FindDuplicates(sigMap, pws, index) ==
  FilenamePass(pws, index, SignatureDuplicates(sigMap, pws, index))

checkRange == 25

SizeFloor == 10000

SimilarCap == 5

\* Math.abs(photo.size - otherPhoto.size) < Math.max(photo.size * 0.1, 10000)
similarSize(photo, otherPhoto) ==
  LET d == Abs(photo.size - otherPhoto.size)
  IN 10 * d < Max(photo.size, 10 * SizeFloor)

\* As SimilarLoop, the test similar.length < 5 forgotten.
SimilarLoopUncapped(pws, index, i, end, similar) ==
  similar \o SelectSeq([k \in 1..(end - i) |-> i + k - 1],
                       LAMBDA j : /\ j # index
                                  /\ pws[index + 1].width = pws[j + 1].width
                                  /\ pws[index + 1].height = pws[j + 1].height
                                  /\ similarSize(pws[index + 1], pws[j + 1])
                                  /\ WithinTimeThreshold(pws[index + 1].creationTime,
                                                         pws[j + 1].creationTime))

RECURSIVE SimilarLoop(_, _, _, _, _)
\* The similarity loop over i in [i, end), similar being the list so far.
SimilarLoop(pws, index, i, end, similar) ==
  IF i >= end THEN similar
  ELSE LET photo == pws[index + 1]
           otherPhoto == pws[i + 1]
       IN IF \/ i = index
             \/ photo.width # otherPhoto.width
             \/ photo.height # otherPhoto.height
          THEN SimilarLoop(pws, index, i + 1, end, similar)
          ELSE IF /\ similarSize(photo, otherPhoto)
                  /\ WithinTimeThreshold(photo.creationTime, otherPhoto.creationTime)
                  /\ Len(similar) < SimilarCap
          THEN SimilarLoop(pws, index, i + 1, end, Append(similar, i))
          ELSE SimilarLoop(pws, index, i + 1, end, similar)

\* As FindSimilar, the scan being run for a photo with duplicates as well.
FindSimilarAlways(pws, index, duplicates) ==
  SimilarLoop(pws, index, Max(0, index - checkRange),
              Min(Len(pws), index + checkRange), <<>>)

\* The scan runs only when duplicates is empty (so duplicateIds is empty too).
FindSimilar(pws, index, duplicates) ==
  IF Len(duplicates) = 0
  THEN SimilarLoop(pws, index, Max(0, index - checkRange),
                   Min(Len(pws), index + checkRange), <<>>)
  ELSE <<>>

commonScreenshotSizes ==
  << [width |-> 1080, height |-> 1920], [width |-> 1242, height |-> 2208],
     [width |-> 750,  height |-> 1334], [width |-> 1440, height |-> 2560],
     [width |-> 1080, height |-> 2340], [width |-> 1170, height |-> 2532],
     [width |-> 1179, height |-> 2556], [width |-> 1284, height |-> 2778] >>

isScreenshot(photo) ==
  \/ Abs(photo.width - photo.height) < 10
  \/ \E k \in DOMAIN commonScreenshotSizes :
       /\ Abs(photo.width - commonScreenshotSizes[k].width) < 50
       /\ Abs(photo.height - commonScreenshotSizes[k].height) < 50

SmallFileBytes == 50000

ManyPixels == 1000000

\* pixels > 0 && (size < 50000 || (pixels > 1000000 && size / pixels < 0.1))
isLowQuality(photo) ==
  LET pixels == photo.width * photo.height
  IN /\ pixels > 0
     /\ \/ photo.size < SmallFileBytes
        \/ (pixels > ManyPixels /\ 10 * photo.size < pixels)

RECURSIVE Unique(_)
\* [...new Set(categories)] : the first occurrence of each label, in order.
Unique(labels) ==
  IF Len(labels) = 0 THEN <<>>
  ELSE LET front == Unique(SubSeq(labels, 1, Len(labels) - 1))
           last == labels[Len(labels)]
       IN IF last \in Range(front) THEN front ELSE Append(front, last)

\* The categories array, in the order of the pushes.
Categories(photo, duplicates, similar, now) ==
  (IF Len(duplicates) > 0 THEN <<PhotoCategory.DUPLICATE>> ELSE <<>>)
  \o (IF Len(similar) > 2 THEN <<PhotoCategory.BURST>>
      ELSE IF Len(similar) > 0 THEN <<PhotoCategory.SIMILAR>> ELSE <<>>)
  \o (IF isScreenshot(photo) THEN <<PhotoCategory.SCREENSHOT>> ELSE <<>>)
  \o (IF isLowQuality(photo) THEN <<PhotoCategory.LOW_QUALITY>> ELSE <<>>)
  \o (IF OlderThanAYear(now, photo.creationTime)
      THEN <<PhotoCategory.OLD_UNUSED>> ELSE <<>>)

\* duplicates.map(d => d.id)
IdsOf(pws, duplicates) == [k \in DOMAIN duplicates |-> pws[duplicates[k] + 1].id]

\* The element of photosWithSignatures after the assignments to photo.duplicateCount,
\* photo.duplicateIds and photo.similarCount.
MarkedPhoto(pws, index, duplicates, similar) ==
  (IF Len(similar) > 0 THEN [similarCount |-> Len(similar)] ELSE <<>>)
  @@ (IF Len(duplicates) > 0
      THEN [duplicateCount |-> Len(duplicates), duplicateIds |-> IdsOf(pws, duplicates)]
      ELSE <<>>)
  @@ pws[index + 1]

\* The record pushed to categorized.
CategorizedPhoto(pws, index, duplicates, similar, now) ==
  [categories |-> Unique(Categories(pws[index + 1], duplicates, similar, now)),
   isDuplicate |-> Len(duplicates) > 0,
   duplicateIds |-> IdsOf(pws, duplicates),
   duplicateCount |-> Len(duplicates)]
  @@ MarkedPhoto(pws, index, duplicates, similar)

\* What one iteration assigns and pushes, given its duplicates and similar lists.
Outcome(pws, index, duplicates, similar, now) ==
  [threw |-> FALSE,
   photo |-> MarkedPhoto(pws, index, duplicates, similar),
   result |-> CategorizedPhoto(pws, index, duplicates, similar, now)]

CategorizeFound(pws, index, found, now) ==
  IF found.threw THEN [threw |-> TRUE]
  ELSE Outcome(pws, index, found.duplicates,
               FindSimilar(pws, index, found.duplicates), now)

\* One iteration of the second loop, for the clock value now.
CategorizeAt(sigMap, pws, index, now) ==
  CategorizeFound(pws, index, FindDuplicates(sigMap, pws, index), now)

(***************************************************************************)
(* The derived views: groupPhotosByCategory and getDuplicateGroups. A       *)
(* reference to the element categorizedPhotos[p - 1] is its position p.     *)
(***************************************************************************)
\* const grouped = { [PhotoCategory.DUPLICATE]: [], ... }
EmptyGroups == [label \in {PhotoCategory[f] : f \in DOMAIN PhotoCategory} |-> <<>>]

\* As PushUnder, the photo being pushed under its first label only.
PushFirstOnly(result, labels, k, p) ==
  IF Len(labels) = 0 THEN result
  ELSE [result EXCEPT ![labels[1]] = Append(@, p)]

RECURSIVE PushUnder(_, _, _, _)
\* photo.categories.forEach, from the k-th label on, for the photo at position p.
PushUnder(result, labels, k, p) ==
  IF k > Len(labels) THEN result
  ELSE PushUnder(IF labels[k] \in DOMAIN result
                 THEN [result EXCEPT ![labels[k]] = Append(@, p)]
                 ELSE result,
                 labels, k + 1, p)

RECURSIVE GroupFrom(_, _, _)
\* categorizedPhotos.forEach, from position p on.
GroupFrom(list, p, result) ==
  IF p > Len(list) \/ DOMAIN result = {} THEN result
  ELSE GroupFrom(list, p + 1, PushUnder(result, list[p].categories, 1, p))

groupPhotosByCategory(categorizedPhotos) == GroupFrom(categorizedPhotos, 1, EmptyGroups)

\* categorizedPhotos.find(p => p.id === dupId) : the first position, 0 for undefined.
FindById(list, id) ==
  LET hits == {p \in DOMAIN list : list[p].id = id}
  IN IF hits = {} THEN 0 ELSE Least(hits)

\* As GroupMembers, the test !processed.has(dupId) forgotten.
GroupMembersUnchecked(list, ids, k, st) ==
  [group |-> st.group \o [j \in DOMAIN ids |-> FindById(list, ids[j])],
   processed |-> st.processed \cup Range(ids)]

RECURSIVE GroupMembers(_, _, _, _)
\* photo.duplicateIds.forEach, from the k-th id on; st = [group, processed].
GroupMembers(list, ids, k, st) ==
  IF k > Len(ids) \/ Len(st.group) = 0 THEN st
  ELSE LET dupPhoto == FindById(list, ids[k])
       IN GroupMembers(list, ids, k + 1,
            IF dupPhoto # 0 /\ ids[k] \notin st.processed
            THEN [group |-> Append(st.group, dupPhoto),
                  processed |-> st.processed \cup {ids[k]}]
            ELSE st)

\* if (group.length > 1) { groups.push(group); processed.add(photo.id); }
CloseGroup(groupsSoFar, id, st) ==
  IF Len(st.group) > 1
  THEN [groups |-> Append(groupsSoFar, st.group), processed |-> st.processed \cup {id}]
  ELSE [groups |-> groupsSoFar, processed |-> st.processed]

RECURSIVE DuplicateGroupsFrom(_, _, _, _)
\* duplicates.forEach, from the k-th duplicate on; st = [groups, processed].
DuplicateGroupsFrom(list, duplicates, k, st) ==
  IF k > Len(duplicates) \/ Len(st.groups) < 0 THEN st
  ELSE LET p == duplicates[k]
       IN DuplicateGroupsFrom(list, duplicates, k + 1,
            IF list[p].id \in st.processed THEN st
            ELSE CloseGroup(st.groups, list[p].id,
                   GroupMembers(list, list[p].duplicateIds, 1,
                                [group |-> <<p>>, processed |-> st.processed])))

getDuplicateGroups(categorizedPhotos) ==
  DuplicateGroupsFrom(categorizedPhotos,
                      SelectSeq([p \in DOMAIN categorizedPhotos |-> p],
                                LAMBDA p : categorizedPhotos[p].isDuplicate),
                      1, [groups |-> <<>>, processed |-> {}]).groups

(***************************************************************************)
(* Inputs                                                                  *)
(***************************************************************************)
MaxSmall == 2

MaxSame == 11

MaxVariants == 2

MaxCapped == 22

MaxLen == 52

MaxClockMs == 1

MaxRuns == 2

Dir == <<"f", "/">>

Photo(id, name, width, height, size, creationTime) ==
  [id |-> id, uri |-> Dir \o name, width |-> width, height |-> height,
   size |-> size, creationTime |-> creationTime]

\* The minute of the instant the clock shows, and a recent minute.
NowMinute == 490000 * 60

RecentMinute == NowMinute - 7 * MinutesPerDay

Img == <<"I", "M", "G", "_", "1">>

Jpg == <<".", "j", "p", "g">>

Counter(k) == <<" ", "(">> \o ToDecimal(k) \o <<")">>

Kinds == {"shot", "reexport", "variant", "soft", "aged", "nouri", "blank"}

\* The photo of a kind, with id i.
KindPhoto(kind, i) ==
  CASE kind = "shot" ->
         Photo(i, Img \o Jpg, 1080, 1920, 500000, <<RecentMinute, 0>>)
    [] kind = "reexport" ->
         Photo(i, Img \o Counter(1) \o Jpg, 1080, 1920, 500400, <<RecentMinute, 30000>>)
    [] kind = "variant" ->
         Photo(i, Img \o <<"-", "C", "o", "p", "y">> \o Jpg, 1080, 1920, 620000,
               <<RecentMinute + 5, 0>>)
    [] kind = "soft" ->
         Photo(i, <<"p", "i", "c", "-", "2">>, 2000, 2000, 300000,
               <<RecentMinute + 9, 10000>>)
    [] kind = "aged" ->
         Photo(i, <<"o", "l", "d">> \o Jpg, 640, 480, 40000,
               <<NowMinute - OldDays * MinutesPerDay, 0>>)
    [] kind = "blank" ->
         Photo(i, <<"n", "e", "w">>, 0, 600, 40000, <<RecentMinute + 30, 0>>)
    [] kind = "nouri" ->
         [id |-> i, width |-> 800, height |-> 600, size |-> 90000,
          creationTime |-> <<RecentMinute + 20, 0>>]

\* Every sequence of 1..MaxSmall photos over the kinds, ids being the positions.
SmallInputs ==
  UNION {{[i \in 1..n |-> KindPhoto(ks[i], i)] : ks \in [1..n -> Kinds]} : n \in 1..MaxSmall}

\* same re-exports of one photo (one signature), then variants of it that share its
\* file name but not its size bucket (pairwise different signatures).
SameThenVariants(same, variants) ==
  [i \in 1..(same + variants) |->
     IF i <= same
     THEN Photo(i, Img \o Counter(i) \o Jpg, 1080, 1920, 500000 + i, <<RecentMinute, i>>)
     ELSE Photo(i, Img \o Counter(i) \o Jpg, 1080, 1920, 500000 + 2000 * (i - same),
                <<RecentMinute + 1, i>>)]

\* The same library, the newest photo first.
Reversed(list) == [i \in DOMAIN list |-> list[Len(list) + 1 - i]]

CapInputs ==
  {SameThenVariants(same, variants) : same \in 0..MaxSame, variants \in 1..MaxVariants}
  \cup {SameThenVariants(0, variants) : variants \in 1..MaxCapped}
  \cup {Reversed(SameThenVariants(MaxSame, variants)) : variants \in 1..MaxVariants}
  \cup {SameThenVariants(MaxSame, MaxCapped - MaxSame + 1)}

\* Every length up to MaxLen: re-exports of one photo.
LongInputs == {SameThenVariants(n, 0) : n \in 1..MaxLen}

MaxBurst == 7

\* n photos with names of their own (no duplicates), taken within one minute with
\* sizes within one KB; those at the positions in alike share their dimensions.
Shots(n, alike) ==
  [i \in 1..n |->
     Photo(i, <<"p">> \o ToDecimal(i) \o Jpg, IF i \in alike THEN 3000 ELSE 3000 + i,
           2000, 2000000 + i, <<RecentMinute, 1000 * i>>)]

\* Two alike photos at the ends of a library, 24, 25 and 26 positions apart.
FarInputs == {Shots(n, {1, n}) : n \in checkRange..(checkRange + 2)}

\* Bursts of 1..MaxBurst alike photos.
BurstInputs == {Shots(n, 1..n) : n \in 1..MaxBurst}

\* Two photos of the same dimensions and minute whose sizes differ by 21000 bytes:
\* less than a tenth of the first size, more than a tenth of the second.
LopsidedPair ==
  <<Photo(1, <<"a">> \o Jpg, 3000, 2000, 220000, <<RecentMinute, 0>>),
    Photo(2, <<"b">> \o Jpg, 3000, 2000, 199000, <<RecentMinute, 5000>>)>>

\* One library with a photo of two labels, a photo of none and a pair of duplicates.
MixedInput == [i \in 1..4 |-> KindPhoto(<<"soft", "blank", "shot", "reexport">>[i], i)]

Inputs ==
  {<<>>, MixedInput, LopsidedPair} \cup SmallInputs \cup CapInputs \cup LongInputs
  \cup FarInputs \cup BurstInputs

\* The values Date.now() may return.
ClockValues == {<<NowMinute, ms>> : ms \in 0..MaxClockMs}

(***************************************************************************)
(* The pipeline as a state machine                                         *)
(***************************************************************************)
VARIABLES
  photos,                \* the photos argument (<<>> when it is null)
  nullInput,             \* TRUE when the photos argument is null
  onProgress,            \* TRUE when a progress callback is supplied
  pc,                    \* where the invocation stands
  error,                 \* what the invocation threw: "none", "callback", "TypeError"
  batchStart,            \* first loop: start of the current batch
  index,                 \* second loop: the photo to categorize next
  photosWithSignatures,
  signatureMap,
  categorized,
  reported,              \* the values passed to onProgress in this invocation
  run,                   \* 1 for the first invocation on photos, 2 for the second
  firstResult,           \* what the first invocation returned
  grouped,               \* the result of groupPhotosByCategory(categorized)
  groups,                \* the result of getDuplicateGroups(categorized)
  derived,               \* which of the two views the caller has requested
  stored,                \* AsyncStorage: the item under DELETED_PHOTOS
  storageCall,           \* the storage call in progress and its locals
  invocations,           \* overlapping invocations: the locals of each
  signatureLists,        \* overlapping invocations: the photosWithSignatures lists
  running,               \* overlapping invocations: the one executing (0: none)
  hashed,                \* simpleHash: the string, the position in it and the hash
  storageCalls           \* overlapping storage calls: the locals of each

pipelineVars ==
  <<photos, nullInput, onProgress, pc, error, batchStart, index,
    photosWithSignatures, signatureMap, categorized, reported, run, firstResult>>

viewVars == <<grouped, groups, derived>>

storageVars == <<stored, storageCall>>

overlapVars == <<invocations, signatureLists, running>>

otherVars == <<hashed, storageCalls>>

vars == <<pipelineVars, viewVars, storageVars, overlapVars, otherVars>>

batchSize == 50

yieldEvery == 25

\* No view of a result has been requested.
NoViews ==
  /\ grouped = EmptyGroups
  /\ groups = <<>>
  /\ derived = {}

\* No storage call is in progress and nothing is stored.
StorageIdle ==
  /\ stored = [present |-> FALSE, list |-> <<>>]
  /\ storageCall = [op |-> "none", pc |-> "done"]

\* No overlapping invocation exists.
NoOverlap ==
  /\ invocations = <<>>
  /\ signatureLists = <<>>
  /\ running = 0

\* No call of simpleHash is followed and no storage calls overlap.
NothingElse ==
  /\ hashed = [str |-> <<>>, i |-> 0, hash |-> <<0, 0>>]
  /\ storageCalls = <<>>

\* The state of a fresh invocation: every local is new.
Fresh ==
  /\ pc = "start"
  /\ error = "none"
  /\ batchStart = 0
  /\ index = 0
  /\ photosWithSignatures = <<>>
  /\ signatureMap = <<>>
  /\ categorized = <<>>
  /\ reported = <<>>

Init ==
  /\ photos \in Inputs
  /\ nullInput \in (IF photos = <<>> THEN BOOLEAN ELSE {FALSE})
  /\ onProgress \in BOOLEAN
  /\ run = 1
  /\ firstResult = <<>>
  /\ Fresh
  /\ NoViews
  /\ StorageIdle
  /\ NoOverlap
  /\ NothingElse

\* As NothingToDo, the test for a null argument forgotten.
NothingToDoUnlessNull(isNull, list) == ~isNull /\ Len(list) = 0

\* if (!photos || photos.length === 0)
NothingToDo(isNull, list) == isNull \/ Len(list) = 0

\* onProgress(value): the callback returns or raises; a raise is not caught and
\* rejects the invocation. Without a callback nothing is reported.
Notify(value, next) ==
  IF onProgress
  THEN /\ reported' = Append(reported, value)
       /\ \E raises \in BOOLEAN :
            IF raises THEN pc' = "rejected" /\ error' = "callback"
            ELSE pc' = next /\ error' = error
  ELSE /\ reported' = reported
       /\ pc' = next
       /\ error' = error

\* As NewSignatureList, the list being kept at module level and never cleared.
StaleSignatureList == photosWithSignatures

\* const photosWithSignatures = [];
NewSignatureList == <<>>

\* The entry of detectDuplicatesAndSimilar: return [] when there is nothing to do,
\* else declare the list of signed photos and enter the first loop (reading the
\* length of a null argument would throw).
Call ==
  /\ pc = "start"
  /\ UNCHANGED <<viewVars, storageVars, overlapVars, otherVars>>
  /\ IF NothingToDo(nullInput, photos)
     THEN /\ pc' = "done"
          /\ categorized' = <<>>
          /\ UNCHANGED <<error, photosWithSignatures, batchStart>>
     ELSE IF nullInput
     THEN /\ pc' = "rejected"
          /\ error' = "TypeError"
          /\ UNCHANGED <<categorized, photosWithSignatures, batchStart>>
     ELSE /\ pc' = "signatures"
          /\ photosWithSignatures' = NewSignatureList
          /\ batchStart' = 0
          /\ UNCHANGED <<error, categorized>>
  /\ UNCHANGED <<photos, nullInput, onProgress, index, signatureMap, reported, run,
                 firstResult>>

\* Math.min(batchStart + batchSize, photos.length)
BatchEnd(start, total) == Min(start + batchSize, total)

\* As SignedBatch, the last photo of the batch left out (i < batchEnd - 1).
SignedBatchShort(list, start, end) ==
  [k \in 1..(end - start - 1) |-> WithSignature(list[start + k])]

\* The photos of one batch, each with its signature.
SignedBatch(list, start, end) ==
  [k \in 1..(end - start) |-> WithSignature(list[start + k])]

\* As InputAfterBatch, the signature being assigned to the input record itself
\* (photo.signature = signature; photosWithSignatures.push(photo)).
SignedInPlace(list, start, end) ==
  [k \in DOMAIN list |-> IF start < k /\ k <= end THEN WithSignature(list[k])
                          ELSE list[k]]

\* The input after a batch: photosWithSignatures.push({ ...photo, signature })
\* copies each record, and the later writes go to the copies.
InputAfterBatch(list, start, end) == list

\* Math.round((batchEnd / total) * 100)
BatchProgress(end, total) == (200 * end + total) \div (2 * total)

\* One batch of the first loop, the report after it, and the test for a yield.
SignatureBatch ==
  /\ pc = "signatures"
  /\ UNCHANGED <<viewVars, storageVars, overlapVars, otherVars>>
  /\ LET batchEnd == BatchEnd(batchStart, Len(photos))
     IN /\ photosWithSignatures' =
             photosWithSignatures \o SignedBatch(photos, batchStart, batchEnd)
        /\ photos' = InputAfterBatch(photos, batchStart, batchEnd)
        /\ Notify(BatchProgress(batchEnd, Len(photos)),
                  IF batchEnd < Len(photos) THEN "yieldA" ELSE "grouping")
  /\ UNCHANGED <<nullInput, onProgress, batchStart, index, signatureMap,
                 categorized, run, firstResult>>

\* The 10 ms timer between two batches fires; the loop takes the next batch.
ResumeSignatures ==
  /\ pc = "yieldA"
  /\ UNCHANGED <<viewVars, storageVars, overlapVars, otherVars>>
  /\ pc' = "signatures"
  /\ batchStart' = batchStart + batchSize
  /\ UNCHANGED <<photos, nullInput, onProgress, error, index, photosWithSignatures,
                 signatureMap, categorized, reported, run, firstResult>>

\* As CategorizationProgress, the fraction scaled to 100 and not to the 45 band.
UnscaledProgress(i, total) == 50 + ((200 * (i + 1) + total) \div (2 * total))

\* Math.round(50 + ((index + 1) / length) * 45)
CategorizationProgress(i, total) == 50 + ((90 * (i + 1) + total) \div (2 * total))

\* As ReportsAt, the report for the last photo forgotten.
ReportsAtMultiples(i, total) == i % yieldEvery = 0

\* index % 25 === 0 || index === photosWithSignatures.length - 1
ReportsAt(i, total) == i % yieldEvery = 0 \/ i = total - 1

\* As YieldsBefore, the await being made every 50 photos.
YieldsEveryBatch(i) == i > 0 /\ i % batchSize = 0

\* if (index > 0 && index % 25 === 0) await ...
YieldsBefore(i) == i > 0 /\ i % yieldEvery = 0

\* Where the second loop stands before the photo at index i.
LoopPoint(i, total) ==
  IF i >= total THEN "final"
  ELSE IF YieldsBefore(i) THEN "yieldC"
  ELSE "categorize"

\* The grouping pass, the report of 50 after it and the entry of the second loop.
GroupBySignature ==
  /\ pc = "grouping"
  /\ UNCHANGED <<viewVars, storageVars, overlapVars, otherVars>>
  /\ categorized' = <<>>
  /\ signatureMap' = BuildSignatureMap(photosWithSignatures)
  /\ index' = 0
  /\ Notify(50, LoopPoint(0, Len(photosWithSignatures)))
  /\ UNCHANGED <<photos, nullInput, onProgress, batchStart, photosWithSignatures,
                 run, firstResult>>

\* One iteration of the second loop: the photo at index is categorized for some
\* clock value, pushed to categorized, and the progress is reported when due. An
\* absent uri met by extractFileName rejects the invocation.
Apply(step, total) ==
  IF step.threw
  THEN /\ pc' = "rejected"
       /\ error' = "TypeError"
       /\ UNCHANGED <<photosWithSignatures, categorized, index, reported>>
  ELSE /\ photosWithSignatures' =
            [photosWithSignatures EXCEPT ![index + 1] = step.photo]
       /\ categorized' = Append(categorized, step.result)
       /\ index' = index + 1
       /\ IF ReportsAt(index, total)
          THEN Notify(CategorizationProgress(index, total),
                      LoopPoint(index + 1, total))
          ELSE /\ pc' = LoopPoint(index + 1, total)
               /\ UNCHANGED <<error, reported>>

\* The iteration for each value the clock may show, its duplicates being found.
CategorizeWith(found) ==
  \E now \in ClockValues :
    Apply(CategorizeFound(photosWithSignatures, index, found, now),
          Len(photosWithSignatures))

Categorize ==
  /\ pc = "categorize"
  /\ UNCHANGED <<viewVars, storageVars, overlapVars, otherVars>>
  /\ CategorizeWith(FindDuplicates(signatureMap, photosWithSignatures, index))
  /\ UNCHANGED <<photos, nullInput, onProgress, batchStart, signatureMap, run,
                 firstResult>>

\* The 5 ms timer before a photo whose index is a multiple of 25 fires.
ResumeCategorize ==
  /\ pc = "yieldC"
  /\ UNCHANGED <<viewVars, storageVars, overlapVars, otherVars>>
  /\ pc' = "categorize"
  /\ UNCHANGED <<photos, nullInput, onProgress, error, batchStart, index,
                 photosWithSignatures, signatureMap, categorized, reported, run,
                 firstResult>>

\* The final report and the return of categorized.
FinalReport ==
  /\ pc = "final"
  /\ UNCHANGED <<viewVars, storageVars, overlapVars, otherVars>>
  /\ Notify(100, "done")
  /\ UNCHANGED <<photos, nullInput, onProgress, batchStart, index,
                 photosWithSignatures, signatureMap, categorized, run, firstResult>>

\* The caller keeps the result of the first invocation and invokes the pipeline
\* again on the same input, with the same callback. What the finished invocation
\* left in its locals stays until the new invocation declares its own.
CallAgain ==
  /\ pc = "done"
  /\ run < MaxRuns
  /\ run' = run + 1
  /\ firstResult' = categorized
  /\ pc' = "start"
  /\ reported' = <<>>
  /\ grouped' = EmptyGroups
  /\ groups' = <<>>
  /\ derived' = {}
  /\ UNCHANGED <<photos, nullInput, onProgress, error, batchStart, index,
                 photosWithSignatures, signatureMap, categorized>>
  /\ UNCHANGED <<storageVars, overlapVars, otherVars>>

\* A caller asks for the photos of the returned result by category.
RequestGrouped ==
  /\ pc = "done"
  /\ "grouped" \notin derived
  /\ grouped' = groupPhotosByCategory(categorized)
  /\ derived' = derived \cup {"grouped"}
  /\ UNCHANGED <<pipelineVars, groups, storageVars, overlapVars, otherVars>>

\* A caller asks for the duplicate groups of the returned result.
RequestGroups ==
  /\ pc = "done"
  /\ "groups" \notin derived
  /\ groups' = getDuplicateGroups(categorized)
  /\ derived' = derived \cup {"groups"}
  /\ UNCHANGED <<pipelineVars, grouped, storageVars, overlapVars, otherVars>>

Next ==
  \/ Call
  \/ SignatureBatch
  \/ ResumeSignatures
  \/ GroupBySignature
  \/ Categorize
  \/ ResumeCategorize
  \/ FinalReport
  \/ CallAgain
  \/ RequestGrouped
  \/ RequestGroups

Spec == Init /\ [][Next]_vars

(***************************************************************************)
(* storage.js: the marked-for-deletion list kept in AsyncStorage            *)
(***************************************************************************)
MaxIds == 2

MaxStored == 2

\* The value of a property that is present and undefined.
Undefined == "undefined"

\* The photos a screen hands to saveDeletedPhoto.
StorablePhoto(i) ==
  [id |-> i, size |-> 1000 * i, filename |-> IF i % 2 = 1 THEN "a.jpg" ELSE Undefined]

\* JSON.parse(JSON.stringify(entry)) : a property whose value is undefined is left out.
ThroughJSON(entry) ==
  [f \in {g \in DOMAIN entry : ~(g = "filename" /\ entry[g] = Undefined)} |-> entry[f]]

\* JSON.parse of what JSON.stringify(list) wrote.
StoredForm(list) == [k \in DOMAIN list |-> ThroughJSON(list[k])]

\* AsyncStorage.getItem and setItem resolve (FALSE) or reject (TRUE).
Rejections == BOOLEAN

\* getDeletedPhotos: data ? JSON.parse(data) : [], and [] when getItem rejects.
getDeletedPhotos(item, rejected) ==
  IF rejected \/ ~item.present THEN <<>> ELSE item.list

\* deleted.filter(p => p.id !== photoId)
WithoutId(list, photoId) == SelectSeq(list, LAMBDA p : p.id # photoId)

\* Whether the call that has just completed was saveDeletedPhoto of this id.
JustSaved(photoId) ==
  storageCall.op = "save" /\ storageCall.pc = "done" /\ storageCall.photo.id = photoId

\* A screen calls saveDeletedPhoto(photo); no other storage call is in progress.
\* before and atCall record the stored list at this call.
SaveDeletedPhoto ==
  /\ storageCall.pc = "done"
  /\ Len(stored.list) < MaxStored
  /\ \E i \in 1..MaxIds :
       storageCall' = [op |-> "save", pc |-> "read", photo |-> StorablePhoto(i),
                       deleted |-> <<>>, before |-> stored.list,
                       atCall |-> stored.list, undoes |-> FALSE, result |-> TRUE]
  /\ UNCHANGED <<stored, pipelineVars, viewVars, overlapVars, otherVars>>

\* A screen calls restorePhoto(photoId). undoes: the call follows a completed
\* saveDeletedPhoto of a photo with this id; before: the list at that earlier call.
RestorePhoto ==
  /\ storageCall.pc = "done"
  /\ \E photoId \in 1..MaxIds :
       storageCall' = [op |-> "restore", pc |-> "read", photo |-> [id |-> photoId],
                       deleted |-> <<>>,
                       before |-> IF JustSaved(photoId) THEN storageCall.before
                                  ELSE stored.list,
                       atCall |-> stored.list, undoes |-> JustSaved(photoId),
                       result |-> TRUE]
  /\ UNCHANGED <<stored, pipelineVars, viewVars, overlapVars, otherVars>>

\* const deleted = await getDeletedPhotos(); then deleted.push({...photo, deletedAt})
\* in saveDeletedPhoto, deleted.filter(...) in restorePhoto.
ReadDeletedPhotos ==
  /\ storageCall.pc = "read"
  /\ \E rejected \in Rejections, now \in ClockValues :
       LET deleted == getDeletedPhotos(stored, rejected)
       IN storageCall' =
            [storageCall EXCEPT
               !.pc = "write",
               !.deleted = IF storageCall.op = "save"
                           THEN Append(deleted, [deletedAt |-> now] @@ storageCall.photo)
                           ELSE WithoutId(deleted, storageCall.photo.id)]
  /\ UNCHANGED <<stored, pipelineVars, viewVars, overlapVars, otherVars>>

\* await AsyncStorage.setItem(key, JSON.stringify(...)); a rejection is caught:
\* saveDeletedPhoto logs it, restorePhoto returns false.
WriteDeletedPhotos ==
  /\ storageCall.pc = "write"
  /\ \E rejected \in Rejections :
       /\ stored' = IF rejected THEN stored
                    ELSE [present |-> TRUE, list |-> StoredForm(storageCall.deleted)]
       /\ storageCall' = [storageCall EXCEPT !.pc = "done", !.result = ~rejected]
  /\ UNCHANGED <<pipelineVars, viewVars, overlapVars, otherVars>>

\* No pipeline invocation exists.
PipelineIdle ==
  /\ photos = <<>>
  /\ nullInput = FALSE
  /\ onProgress = FALSE
  /\ run = 1
  /\ firstResult = <<>>
  /\ Fresh

StorageInit == PipelineIdle /\ NoViews /\ NoOverlap /\ NothingElse /\ StorageIdle

StorageNext ==
  \/ SaveDeletedPhoto
  \/ RestorePhoto
  \/ ReadDeletedPhotos
  \/ WriteDeletedPhotos

StorageSpec == StorageInit /\ [][StorageNext]_vars

(***************************************************************************)
(* Two invocations of detectDuplicatesAndSimilar in progress at once. One   *)
(* invocation executes at a time, from one await to the next; no callback   *)
(* is passed.                                                               *)
(***************************************************************************)
Invokers == {1, 2}

\* As ListOf, the list being one module-level array that every invocation uses.
SharedList(k) == 1

\* const photosWithSignatures = [] is declared inside the function: the list of
\* invocation k is its own.
ListOf(k) == k

\* Libraries with an await in the first loop, in the second, or in neither.
OverlapInputs ==
  {SameThenVariants(batchSize + 1, 0), SameThenVariants(0, yieldEvery + 1),
   Reversed(SameThenVariants(1, MaxVariants))}

NewInvocation(list) ==
  [photos |-> list, pc |-> "start", batchStart |-> 0, index |-> 0,
   signatureMap |-> <<>>, categorized |-> <<>>, interleaved |-> FALSE]

Suspended(k) == invocations[k].pc \in {"yieldA", "yieldC"}

\* Invocation k takes the thread while another invocation is suspended.
Interleaves(k) == \E j \in Invokers \ {k} : Suspended(j)

\* Who executes after invocation k has moved to position next.
Holder(k, next) == IF next \in {"yieldA", "yieldC", "done"} THEN 0 ELSE k

\* The entry of the function, up to the first loop.
OverlapCall(k) ==
  /\ running = 0
  /\ invocations[k].pc = "start"
  /\ LET next == IF NothingToDo(FALSE, invocations[k].photos) THEN "done"
                 ELSE "signatures"
     IN /\ invocations' = [invocations EXCEPT ![k].pc = next,
                                              ![k].interleaved = Interleaves(k)]
        /\ signatureLists' = [signatureLists EXCEPT ![ListOf(k)] = NewSignatureList]
        /\ running' = Holder(k, next)
  /\ UNCHANGED <<pipelineVars, viewVars, storageVars, otherVars>>

\* One batch of the first loop, up to the await after it or to the grouping pass.
OverlapSignatureBatch(k) ==
  /\ running = k
  /\ invocations[k].pc = "signatures"
  /\ LET own == invocations[k]
         batchEnd == BatchEnd(own.batchStart, Len(own.photos))
         next == IF batchEnd < Len(own.photos) THEN "yieldA" ELSE "grouping"
     IN /\ signatureLists' =
             [signatureLists EXCEPT
                ![ListOf(k)] = @ \o SignedBatch(own.photos, own.batchStart, batchEnd)]
        /\ invocations' = [invocations EXCEPT ![k].pc = next]
        /\ running' = Holder(k, next)
  /\ UNCHANGED <<pipelineVars, viewVars, storageVars, otherVars>>

\* The timer of a suspended invocation fires while no invocation executes.
OverlapResume(k) ==
  /\ running = 0
  /\ Suspended(k)
  /\ invocations' =
       [invocations EXCEPT
          ![k].pc = IF @ = "yieldA" THEN "signatures" ELSE "categorize",
          ![k].batchStart = IF invocations[k].pc = "yieldA" THEN @ + batchSize ELSE @,
          ![k].interleaved = @ \/ Interleaves(k)]
  /\ running' = k
  /\ UNCHANGED <<signatureLists, pipelineVars, viewVars, storageVars, otherVars>>

\* The grouping pass and the entry of the second loop.
OverlapGroup(k) ==
  /\ running = k
  /\ invocations[k].pc = "grouping"
  /\ LET list == signatureLists[ListOf(k)]
         next == LoopPoint(0, Len(list))
     IN /\ invocations' =
             [invocations EXCEPT ![k].signatureMap = BuildSignatureMap(list),
                                 ![k].categorized = <<>>,
                                 ![k].index = 0,
                                 ![k].pc = IF next = "final" THEN "done" ELSE next]
        /\ running' = Holder(k, IF next = "final" THEN "done" ELSE next)
  /\ UNCHANGED <<signatureLists, pipelineVars, viewVars, storageVars, otherVars>>

\* What one iteration of the second loop makes of the invocation and its list.
OverlapApply(k, step, list) ==
  LET next == LoopPoint(invocations[k].index + 1, Len(list))
      after == IF next = "final" THEN "done" ELSE next
  IN /\ signatureLists' =
          [signatureLists EXCEPT ![ListOf(k)][invocations[k].index + 1] = step.photo]
     /\ invocations' =
          [invocations EXCEPT ![k].categorized = Append(@, step.result),
                              ![k].index = @ + 1,
                              ![k].pc = after]
     /\ running' = Holder(k, after)

\* One iteration of the second loop, up to the await before the next photo or to
\* the return.
OverlapCategorize(k) ==
  /\ running = k
  /\ invocations[k].pc = "categorize"
  /\ \E now \in ClockValues :
       OverlapApply(k, CategorizeAt(invocations[k].signatureMap,
                                    signatureLists[ListOf(k)],
                                    invocations[k].index, now),
                    signatureLists[ListOf(k)])
  /\ UNCHANGED <<pipelineVars, viewVars, storageVars, otherVars>>

OverlapInit ==
  /\ PipelineIdle
  /\ NoViews
  /\ StorageIdle
  /\ NothingElse
  /\ \E first, second \in OverlapInputs :
       /\ first # second
       /\ invocations = [k \in Invokers |->
                           NewInvocation(IF k = 1 THEN first ELSE second)]
  /\ signatureLists = [k \in Invokers |-> <<>>]
  /\ running = 0

OverlapNext ==
  \/ \E k \in Invokers : OverlapCall(k)
  \/ \E k \in Invokers : OverlapSignatureBatch(k)
  \/ \E k \in Invokers : OverlapResume(k)
  \/ \E k \in Invokers : OverlapGroup(k)
  \/ \E k \in Invokers : OverlapCategorize(k)

OverlapSpec == OverlapInit /\ [][OverlapNext]_vars

(***************************************************************************)
(* Properties                                                              *)
(***************************************************************************)
Returned == pc = "done"

DistinctIds == Cardinality({photos[i].id : i \in DOMAIN photos}) = Len(photos)

NonDecreasing(values) ==
  \A k \in 1..(Len(values) - 1) : values[k] <= values[k + 1]

\* C1: over one run on a non-empty input with a callback, each value passed to the
\* callback is >= the one before it, and the last value of a completed run is 100.
C1_ProgressNonDecreasing ==
  /\ NonDecreasing(reported)
  /\ (Returned /\ onProgress /\ Len(photos) > 0) => reported[Len(reported)] = 100

\* The input fields of the record at position i are those of the input at i.
CarriesInput(i) ==
  \A f \in DOMAIN photos[i] :
    f \in DOMAIN categorized[i] /\ categorized[i][f] = photos[i][f]

\* C2: the returned sequence has the length of the input and its record at every
\* position i carries the id and the metadata of the input record at i (while the
\* second loop runs, categorized is the prefix of that sequence).
C2_OrderPreserved ==
  /\ Len(categorized) <= Len(photos)
  /\ \A i \in DOMAIN categorized : CarriesInput(i)
  /\ Returned => Len(categorized) = Len(photos)

C2_Witness ==
  /\ Returned
  /\ Len(categorized) > batchSize
  /\ \E i \in DOMAIN categorized : categorized[i].id # categorized[1].id

\* C3: in a returned output (the input ids being pairwise distinct), if B's id is in
\* A's duplicateIds then A's id is in B's duplicateIds.
C3_DuplicateSymmetry ==
  (Returned /\ DistinctIds) =>
    \A a, b \in DOMAIN categorized :
      categorized[b].id \in Range(categorized[a].duplicateIds)
        => categorized[a].id \in Range(categorized[b].duplicateIds)

\* C4: a callback that raises never makes the invocation fail: the exception does
\* not leave the pipeline.
C4_CallbackIsolated == ~(pc = "rejected" /\ error = "callback")

HasBadRecord == \E i \in DOMAIN photos : ~HasUri(photos[i])

\* C5: a record whose signature generation raises (an absent uri) never aborts the
\* batch: no error of that record leaves the pipeline.
C5_BadRecordTolerated == HasBadRecord => ~(pc = "rejected" /\ error = "TypeError")

NothingGiven == nullInput \/ Len(photos) = 0

\* C6: an empty input and a null input return an empty sequence as a normal result:
\* nothing is thrown, nothing is reported, and the invocation goes straight from
\* its entry to its return.
C6_EmptyOrNull ==
  NothingGiven =>
    /\ pc \in {"start", "done"}
    /\ error = "none"
    /\ Returned => categorized = <<>>

C6_Witness == Returned /\ nullInput /\ run = 1

C6_WitnessEmpty == Returned /\ ~nullInput /\ Len(photos) = 0

SecondReturned == Returned /\ run = 2 /\ Len(photos) > 0

\* C7 as stated: two runs on the same input, each reading the clock freely, agree
\* record by record on signature, categories and duplicateIds.
C7_Determinism ==
  SecondReturned =>
    /\ Len(categorized) = Len(firstResult)
    /\ \A i \in DOMAIN categorized :
         /\ categorized[i].signature = firstResult[i].signature
         /\ categorized[i].categories = firstResult[i].categories
         /\ categorized[i].duplicateIds = firstResult[i].duplicateIds

ClockFree(labels) == SelectSeq(labels, LAMBDA c : c # PhotoCategory.OLD_UNUSED)

\* C7 amended: the two runs agree record by record on signature, on duplicateIds
\* and on every category label other than old_unused (the one label computed from
\* the clock).
C7_DeterminismUpToClock ==
  SecondReturned =>
    /\ Len(categorized) = Len(firstResult)
    /\ \A i \in DOMAIN categorized :
         /\ categorized[i].signature = firstResult[i].signature
         /\ ClockFree(categorized[i].categories) = ClockFree(firstResult[i].categories)
         /\ categorized[i].duplicateIds = firstResult[i].duplicateIds

C7_Witness ==
  /\ SecondReturned
  /\ \E i \in DOMAIN categorized :
       /\ categorized[i].categories # firstResult[i].categories
       /\ Len(categorized[i].duplicateIds) > 0

\* The quantized fields of the claim, computed from the record itself.
QuantizedKey(photo) ==
  <<photo.width, photo.height, (photo.size + 500) \div 1000, photo.creationTime[1],
    NormalizeFileName(extractFileName(photo.uri))>>

SameKeySameSignature(keys) ==
  \A i, j \in DOMAIN keys :
    (keys[i] # <<>> /\ keys[i] = keys[j])
      => photosWithSignatures[i].signature = photosWithSignatures[j].signature

KeysOf(list) ==
  [i \in DOMAIN list |-> IF HasUri(list[i]) THEN QuantizedKey(list[i]) ELSE <<>>]

NoRepeat(list) == Cardinality(Range(list)) = Len(list)

\* C9: every output record (the input ids being pairwise distinct) has no id twice
\* in duplicateIds, duplicateCount = |duplicateIds|, and no label twice in categories.
C9_RecordInvariants ==
  DistinctIds =>
    \A i \in DOMAIN categorized :
      /\ NoRepeat(categorized[i].duplicateIds)
      /\ categorized[i].duplicateCount = Len(categorized[i].duplicateIds)
      /\ NoRepeat(categorized[i].categories)

\* A record whose duplicates come from its signature and from its file name as well.
C9_Witness ==
  /\ Returned
  /\ \E i \in DOMAIN categorized :
       /\ categorized[i].duplicateCount >= 2
       /\ Len(categorized[i].categories) >= 2
       /\ \E a, b \in DOMAIN categorized :
            /\ categorized[a].id \in Range(categorized[i].duplicateIds)
            /\ categorized[b].id \in Range(categorized[i].duplicateIds)
            /\ categorized[a].signature = categorized[i].signature
            /\ categorized[b].signature # categorized[i].signature

\* C10: every value passed to the callback is an integer from 0 to 100.
C10_ProgressInRange == \A k \in DOMAIN reported : reported[k] \in 0..100

C10_Witness ==
  /\ Returned
  /\ Len(photos) % batchSize # 0
  /\ Len(photos) % yieldEvery # 0
  /\ Len(photos) > batchSize
  /\ Len(reported) > 4

\* The normalized file name of the input record at position i ("" without a uri).
BaseOf(i) ==
  IF HasUri(photos[i]) THEN NormalizeFileName(extractFileName(photos[i].uri)) ELSE <<>>

Labelled(i, label) == label \in Range(categorized[i].categories)

Lists(i, j) == categorized[j].id \in Range(categorized[i].duplicateIds)

\* C11: in a returned output of an input of at most 10 photos, any two photos whose
\* normalized file names are equal and non-empty both carry the label duplicate and
\* each lists the id of the other in duplicateIds, whatever their sizes and times.
C11_FilenameVariants ==
  (Returned /\ Len(photos) <= FilenamePassGuard) =>
    \A i, j \in DOMAIN photos :
      (i # j /\ BaseOf(i) = BaseOf(j) /\ Len(BaseOf(i)) > 0) =>
        /\ Labelled(i, PhotoCategory.DUPLICATE)
        /\ Labelled(j, PhotoCategory.DUPLICATE)
        /\ Lists(i, j)
        /\ Lists(j, i)

\* Two names that differ only by their copy counter, on photos whose size bucket,
\* creation minute and signature differ, next to a signature duplicate of one.
C11_Witness ==
  /\ Returned
  /\ Len(photos) <= FilenamePassGuard
  /\ \E i, j, k \in DOMAIN photos :
       /\ i # j /\ i # k /\ j # k
       /\ HasUri(photos[i]) /\ HasUri(photos[j])
       /\ StripCounters(extractFileName(photos[i].uri))
            = StripCounters(extractFileName(photos[j].uri))
       /\ photos[i].uri # photos[j].uri
       /\ RoundedKB(photos[i].size) # RoundedKB(photos[j].size)
       /\ timeRounded(photos[i].creationTime) # timeRounded(photos[j].creationTime)
       /\ categorized[i].signature # categorized[j].signature
       /\ categorized[i].signature = categorized[k].signature
       /\ Lists(i, j) /\ Lists(j, i)

\* The rule of the label low_quality, on the fields of a record.
LowQualityRule(photo) ==
  \/ photo.size < SmallFileBytes
  \/ /\ photo.width * photo.height > ManyPixels
     /\ 10 * photo.size < photo.width * photo.height

\* C12: an output record carries the label low_quality exactly when its size is
\* below 50000, or its width * height exceeds 1,000,000 and its size is below a
\* tenth of width * height; for every width, height and size, 0 included.
C12_LowQualityRule ==
  \A i \in DOMAIN categorized :
    Labelled(i, PhotoCategory.LOW_QUALITY) <=> LowQualityRule(categorized[i])

AllLabels == {PhotoCategory[f] : f \in DOMAIN PhotoCategory}

\* The positions of the output records that carry a label, in output order.
Carriers(label) == SelectSeq([p \in DOMAIN categorized |-> p], LAMBDA p : Labelled(p, label))

\* C14: groupPhotosByCategory returns one list for each of the six labels, holding
\* exactly the photos whose categories contain the label, in input order and once
\* each (so a photo with k labels is in k lists and one with no label in none).
C14_GroupedByCategory ==
  "grouped" \in derived =>
    /\ DOMAIN grouped = AllLabels
    /\ \A label \in AllLabels : grouped[label] = Carriers(label)

\* A result with a photo under two labels, a photo under none and a list of two.
C14_Witness ==
  /\ "grouped" \in derived
  /\ \E p, q \in DOMAIN categorized :
       /\ Len(categorized[p].categories) >= 2
       /\ Cardinality({label \in AllLabels : p \in Range(grouped[label])}) >= 2
       /\ Len(categorized[q].categories) = 0
  /\ \E label \in AllLabels : Len(grouped[label]) >= 2

\* The id of the k-th member of the g-th group.
MemberId(g, k) == categorized[groups[g][k]].id

\* C15: in the result of getDuplicateGroups on a pipeline output with pairwise
\* distinct ids, no photo is in two groups and none is twice in one group.
C15_GroupsDisjoint ==
  ("groups" \in derived /\ DistinctIds) =>
    \A g, h \in DOMAIN groups :
      \A a \in DOMAIN groups[g], b \in DOMAIN groups[h] :
        MemberId(g, a) = MemberId(h, b) => (g = h /\ a = b)

\* Two groups, the photo that opens the second listing members of the first.
C15_Witness ==
  /\ "groups" \in derived
  /\ DistinctIds
  /\ Len(groups) >= 2
  /\ \E k \in DOMAIN groups[1] :
       MemberId(1, k) \in Range(categorized[groups[2][1]].duplicateIds)

Mutual(a, b) == Lists(a, b) /\ Lists(b, a)

\* C16: every group returned by getDuplicateGroups on a pipeline output is a set
\* of photos that list one another (each of two distinct members has the id of
\* the other in its duplicateIds), and no photo outside the group lists, and is
\* listed by, every member.
C16_GroupsAreClusters ==
  ("groups" \in derived /\ DistinctIds) =>
    \A g \in DOMAIN groups :
      /\ \A a, b \in Range(groups[g]) : a # b => Mutual(a, b)
      /\ \A x \in DOMAIN categorized \ Range(groups[g]) :
           \E a \in Range(groups[g]) : ~Mutual(a, x)

\* restorePhoto(photoId) has completed (it returned true) right after a completed
\* saveDeletedPhoto of a photo with that id.
UndoCompleted ==
  /\ storageCall.op = "restore"
  /\ storageCall.pc = "done"
  /\ storageCall.result
  /\ storageCall.undoes

HasId(list, photoId) == \E k \in DOMAIN list : list[k].id = photoId

\* C13: after a completed saveDeletedPhoto(p), a completed restorePhoto(p.id)
\* leaves the stored list without an entry of id p.id and with every other entry
\* it held, unchanged and in the same order; when the list held no entry of that
\* id before the save, the list is what it was before the two calls.
C13_UndoOfDeletion ==
  UndoCompleted =>
    /\ ~HasId(stored.list, storageCall.photo.id)
    /\ stored.list = WithoutId(storageCall.atCall, storageCall.photo.id)
    /\ ~HasId(storageCall.before, storageCall.photo.id)
         => stored.list = storageCall.before

RECURSIVE CategorizeAlone(_, _, _, _, _)
\* The second loop of an invocation that runs alone, from index on.
CategorizeAlone(sigMap, list, i, now, out) ==
  IF i >= Len(list) \/ Len(out) # i THEN out
  ELSE CategorizeAlone(sigMap, list, i + 1, now,
                       Append(out, CategorizeAt(sigMap, list, i, now).result))

RunFrom(list, now) == CategorizeAlone(BuildSignatureMap(list), list, 0, now, <<>>)

\* What detectDuplicatesAndSimilar returns for an input when it runs alone (none
\* of the libraries here has a photo without uri or near the age limit).
RunAlone(list, now) == RunFrom(SignedBatch(list, 0, Len(list)), now)

\* The list an invocation reads holds its own photos, as far as it has signed them.
ReadsOwnList(k) ==
  LET own == invocations[k]
      list == signatureLists[ListOf(k)]
  IN own.pc \in {"yieldA", "grouping", "categorize", "yieldC"} =>
       /\ Len(list) = IF own.pc = "yieldA" THEN own.batchStart + batchSize
                      ELSE Len(own.photos)
       /\ \A i \in DOMAIN list : list[i].size = own.photos[i].size

\* C17: when two invocations on different inputs interleave at their awaits,
\* each reads a signature list that holds its own photos only, and once both have
\* returned (an output never changes after the return) each has returned what it
\* returns when it runs alone.
C17_Reentrant ==
  /\ \A k \in DOMAIN invocations : ReadsOwnList(k)
  /\ (\A k \in DOMAIN invocations : invocations[k].pc = "done") =>
       \A k \in DOMAIN invocations :
         \E now \in ClockValues :
           invocations[k].categorized = RunAlone(invocations[k].photos, now)

\* Both invocations have returned, each having taken the thread while the other
\* was suspended, one of them in its first loop.
C17_Witness ==
  /\ DOMAIN invocations = Invokers
  /\ \A k \in Invokers :
       /\ invocations[k].pc = "done"
       /\ invocations[k].interleaved
       /\ Len(invocations[k].categorized) > yieldEvery
  /\ invocations[1].photos # invocations[2].photos

\* C18: the pipeline only reads its input: no step of an invocation changes the
\* input sequence or a field of an input record, or adds a field to one.
C18_InputUnchanged == [][photos' = photos]_vars

\* A returned run whose output records and signed copies carry the added fields
\* while the input records do not.
C18_Witness ==
  /\ Returned
  /\ \E i \in DOMAIN photos :
       /\ categorized[i].duplicateCount > 0
       /\ "duplicateIds" \in DOMAIN photosWithSignatures[i]
       /\ "signature" \in DOMAIN photosWithSignatures[i]
       /\ DOMAIN photos[i] \cap {"signature", "categories", "duplicateCount",
                                 "duplicateIds", "similarCount"} = {}

\* The first loop is running or has just ended: the report of the grouping pass
\* has not been made.
InPhaseA == pc \in {"signatures", "yieldA", "grouping"}

\* C19: every value reported after a chunk of the first loop is within 0..50.
C19_PhaseAInRange ==
  InPhaseA => \A k \in DOMAIN reported : reported[k] \in 0..50

\* The number of chunks of an input of n photos.
Chunks(n) == (n + batchSize - 1) \div batchSize

\* The values reported from inside the second loop so far.
PhaseCReports ==
  SubSeq(reported, Chunks(Len(photos)) + 2, Len(reported) - (IF Returned THEN 1 ELSE 0))

\* The number of indices below n that are multiples of 25, and one more when the
\* last index is not one of them.
DueReports(n) ==
  ((n - 1) \div yieldEvery) + 1 + (IF (n - 1) % yieldEvery = 0 THEN 0 ELSE 1)

\* C20: the values reported from inside the second loop are within 50..95 and
\* never decrease; the last photo is reported whatever its index (the loop ends
\* on a report of 95), and a returned run has made exactly one more report, of 100.
C20_PhaseCReports ==
  (onProgress /\ pc \in {"categorize", "yieldC", "final", "done"} /\ Len(photos) > 0) =>
    /\ \A k \in DOMAIN PhaseCReports : PhaseCReports[k] \in 50..95
    /\ NonDecreasing(PhaseCReports)
    /\ pc \in {"final", "done"} =>
         /\ Len(PhaseCReports) = DueReports(Len(photos))
         /\ PhaseCReports[Len(PhaseCReports)] = 95
    /\ pc = "final" => Len(reported) = Chunks(Len(photos)) + 1 + DueReports(Len(photos))
    /\ Returned =>
         /\ Len(reported) = Chunks(Len(photos)) + 2 + DueReports(Len(photos))
         /\ reported[Len(reported)] = 100

\* A returned run of more than 25 photos whose last index is not a multiple of 25.
C20_Witness ==
  /\ Returned
  /\ onProgress
  /\ Len(photos) > yieldEvery
  /\ (Len(photos) - 1) % yieldEvery # 0
  /\ Len(PhaseCReports) >= 3
  /\ PhaseCReports[1] < PhaseCReports[2]

\* A step of the first loop signs at most 50 photos, and an await follows it
\* exactly when photos are left to sign.
BoundedSigning ==
  (pc = "signatures" /\ pc' # "rejected") =>
    /\ Len(photosWithSignatures') - Len(photosWithSignatures) <= batchSize
    /\ pc' = "yieldA" <=> Len(photosWithSignatures') < Len(photos)
    /\ pc' # "signatures"

\* A step of the second loop categorizes one photo, and an await follows it
\* exactly when the next index is a positive multiple of 25 with a photo at it.
BoundedCategorizing ==
  (pc = "categorize" /\ pc' \notin {"rejected"}) =>
    /\ index' = index + 1
    /\ pc' = "yieldC" <=> (index' % yieldEvery = 0 /\ index' < Len(photos))

\* C21: an await follows every chunk of 50 signatures but the last, and precedes
\* every photo whose index is a positive multiple of 25: no more than 50
\* signatures and no more than 25 categorizations happen between two awaits.
C21_BoundedWork == [][BoundedSigning /\ BoundedCategorizing]_vars

\* The second await of the second loop, in a run that awaited in the first loop.
C21_Witness ==
  /\ pc = "yieldC"
  /\ index = 2 * yieldEvery
  /\ Len(photos) > batchSize

\* The photos at positions i and j pass the three tests of the similarity scan,
\* the size test being made from the photo at i.
Qualifies(i, j) ==
  /\ photos[i].width = photos[j].width
  /\ photos[i].height = photos[j].height
  /\ 10 * Abs(photos[i].size - photos[j].size) < Max(photos[i].size, 10 * SizeFloor)
  /\ Abs(photos[i].creationTime[1] - photos[j].creationTime[1]) <= 1
  /\ Abs(MsPerMinute * (photos[i].creationTime[1] - photos[j].creationTime[1])
         + photos[i].creationTime[2] - photos[j].creationTime[2]) < MsPerMinute

\* C22: no output photo carries duplicate together with similar or burst, and a
\* photo with duplicateCount > 0 has no similarCount.
C22_DuplicatesFirst ==
  \A i \in DOMAIN categorized :
    /\ Labelled(i, PhotoCategory.DUPLICATE) =>
         /\ ~Labelled(i, PhotoCategory.SIMILAR)
         /\ ~Labelled(i, PhotoCategory.BURST)
    /\ categorized[i].duplicateCount > 0 => "similarCount" \notin DOMAIN categorized[i]

\* A photo with a duplicate that passes the tests of the similarity scan.
C22_Witness ==
  /\ Returned
  /\ \E i, j \in DOMAIN categorized :
       /\ i # j
       /\ Lists(i, j)
       /\ Qualifies(i, j)
       /\ Labelled(i, PhotoCategory.DUPLICATE)

\* similarCount of the output record at i (the field is absent for no neighbour).
SimilarCountOf(i) ==
  IF "similarCount" \in DOMAIN categorized[i] THEN categorized[i].similarCount ELSE 0

\* The number of qualifying neighbours of i among the positions from..to, up to
\* the cap of 5.
Neighbours(i, from, to) ==
  Min(SimilarCap,
      Cardinality({j \in DOMAIN photos : j # i /\ from <= j /\ j <= to /\ Qualifies(i, j)}))

\* C23: for a photo without duplicates at i, the scan examines exactly the
\* positions j # i with |i - j| <= 25: its similarCount is the number of
\* qualifying photos among them (up to the cap).
C23_WindowBothSides ==
  Returned =>
    \A i \in DOMAIN categorized :
      categorized[i].duplicateCount = 0 =>
        SimilarCountOf(i) = Neighbours(i, i - checkRange, i + checkRange)

\* The neighbours among the positions the scan examines: from 25 before i to 24
\* after it.
Examined(i) == Neighbours(i, i - checkRange, i + checkRange - 1)

\* C24: for a photo without duplicates whose window holds k qualifying neighbours
\* (counted up to 5): k > 2 gives burst and not similar, k = 1 or 2 gives similar
\* and not burst, k = 0 gives neither; similarCount is k and never exceeds 5.
C24_BurstOrSimilar ==
  Returned =>
    \A i \in DOMAIN categorized :
      categorized[i].duplicateCount = 0 =>
        /\ SimilarCountOf(i) = Examined(i)
        /\ SimilarCountOf(i) <= SimilarCap
        /\ Labelled(i, PhotoCategory.BURST) <=> Examined(i) > 2
        /\ Labelled(i, PhotoCategory.SIMILAR) <=> Examined(i) \in {1, 2}

\* A burst of more than 6 photos: each has more than 5 qualifying neighbours.
C24_Witness ==
  /\ Returned
  /\ Len(photos) > SimilarCap + 1
  /\ \A i \in DOMAIN categorized :
       /\ categorized[i].duplicateCount = 0
       /\ SimilarCountOf(i) = SimilarCap
       /\ Labelled(i, PhotoCategory.BURST)

\* The positions of the other output records with the signature of the record at i.
SameSignature(i) ==
  SelectSeq([j \in DOMAIN categorized |-> j],
            LAMBDA j : j # i /\ categorized[j].signature = categorized[i].signature)

\* The other photos of another signature whose normalized file name is base.
NamedAs(i, base) ==
  IF Len(base) = 0 THEN {}
  ELSE {j \in DOMAIN categorized :
          /\ j # i
          /\ categorized[j].signature # categorized[i].signature
          /\ BaseOf(j) = base}

\* The other photos with the normalized file name of i and another signature.
SameNameOnly(i) == NamedAs(i, BaseOf(i))

\* C25: a photo with fewer than 10 same-signature duplicates ends with
\* duplicateCount <= 20, and a photo with 10 or more same-signature duplicates ends
\* with exactly those, in input order, as its duplicateIds.
C25_FilenamePassGuard ==
  (Returned /\ DistinctIds) =>
    \A i \in DOMAIN categorized :
      IF Len(SameSignature(i)) < FilenamePassGuard
      THEN categorized[i].duplicateCount <= FilenamePassCap
      ELSE categorized[i].duplicateIds =
             [k \in DOMAIN SameSignature(i) |-> categorized[SameSignature(i)[k]].id]

\* A library where one photo has 10 same-signature duplicates and a namesake it
\* does not list, and another has 20 duplicates and a namesake it does not list.
C25_Witness ==
  /\ Returned
  /\ \E i \in DOMAIN categorized :
       /\ Len(SameSignature(i)) >= FilenamePassGuard
       /\ \E j \in SameNameOnly(i) : ~Lists(i, j)
  /\ \E i \in DOMAIN categorized :
       /\ Len(SameSignature(i)) < FilenamePassGuard
       /\ categorized[i].duplicateCount = FilenamePassCap
       /\ \E j \in SameNameOnly(i) : ~Lists(i, j)

(***************************************************************************)
(* simpleHash, one character at a time                                     *)
(***************************************************************************)
\* Strings whose hash is -2^31, and the strings the signatures are made of.
MinHashStrings ==
  {<<"p", "o", "l", "y", "g", "e", "n", "e", "l", "u", "b", "r", "i", "c", "a", "n",
     "t", "s">>,
   <<"G", "y", "d", "Z", "G", "_">>,
   <<"D", "E", "S", "I", "G", "N", "I", "N", "G", " ", "W", "O", "R", "K", "H", "O",
     "U", "S", "E", "S">>}

HashedStrings ==
  MinHashStrings
  \cup {<<>>, <<"a">>}
  \cup {signatureString(KindPhoto(kind, 1)) : kind \in Kinds \ {"nouri"}}

\* The high half read as a signed 16-bit number.
Signed16(hi) == IF hi >= Half \div 2 THEN hi - Half ELSE hi

\* ((hash << 5) - hash) + char before `hash & hash`: the shift gives a signed
\* 32-bit number, the subtraction and the addition are exact. The value is
\* hi * 2^16 + lo of the pair, whose halves are not reduced.
Untruncated(hash, char) ==
  <<Signed16(ShiftLeft5(hash)[1]) - Signed16(hash[1]),
    ShiftLeft5(hash)[2] - hash[2] + char>>

\* The value of the pair is outside -2^31 .. 2^31 - 1.
LeavesInt32(v) ==
  (v[1] + (v[2] \div Half)) \notin (0 - Half \div 2)..(Half \div 2 - 1)

HashIdle ==
  /\ PipelineIdle
  /\ NoViews
  /\ StorageIdle
  /\ NoOverlap
  /\ storageCalls = <<>>

HashInit ==
  /\ HashIdle
  /\ \E str \in HashedStrings :
       hashed = [str |-> str, i |-> 0, hash |-> <<0, 0>>, left |-> FALSE,
                 pc |-> "loop", result |-> <<>>]

\* for (let i = 0; i < str.length; i++) { ... } : one iteration
HashChar ==
  /\ hashed.pc = "loop"
  /\ hashed.i < Len(hashed.str)
  /\ hashed' = [hashed EXCEPT
       !.i = @ + 1,
       !.hash = HashStep(@, CharCode(hashed.str[hashed.i + 1])),
       !.left = @ \/ LeavesInt32(Untruncated(hashed.hash,
                                             CharCode(hashed.str[hashed.i + 1])))]
  /\ UNCHANGED <<pipelineVars, viewVars, storageVars, overlapVars, storageCalls>>

\* return Math.abs(hash).toString(36);
HashReturn ==
  /\ hashed.pc = "loop"
  /\ hashed.i = Len(hashed.str)
  /\ hashed' = [hashed EXCEPT !.pc = "done", !.result = ToBase36(Abs32(hashed.hash))]
  /\ UNCHANGED <<pipelineVars, viewVars, storageVars, overlapVars, storageCalls>>

HashNext == HashChar \/ HashReturn

HashSpec == HashInit /\ [][HashNext]_vars

\* h * 31 + c modulo 2^32, by multiplication of the halves.
Rolling(h, c) == Wrap32(h[1] * 31, h[2] * 31 + c)

\* The absolute value of the signed 32-bit number h (2^31 for -2^31).
Magnitude(h) ==
  IF h[1] < Half \div 2 THEN h
  ELSE IF h[2] = 0 THEN <<Half - h[1], 0>>
  ELSE <<Half - 1 - h[1], Half - h[2]>>

\* C26: each iteration of simpleHash takes hash to hash * 31 + charCode modulo 2^32,
\* which is the truncation of the exact value of ((hash << 5) - hash) + char, also
\* when that value is outside the 32-bit range; the result is the base-36 form of the
\* absolute value of the signed hash, 2^31 ("zik0zk") when the hash is -2^31.
C26_RollingHash ==
  [][/\ HashChar =>
          /\ hashed'.hash = Rolling(hashed.hash, CharCode(hashed.str[hashed.i + 1]))
          /\ hashed'.hash =
               Wrap32(Untruncated(hashed.hash, CharCode(hashed.str[hashed.i + 1]))[1],
                      Untruncated(hashed.hash, CharCode(hashed.str[hashed.i + 1]))[2])
          /\ IsInt32(hashed'.hash)
     /\ HashReturn =>
          /\ hashed'.result = ToBase36(Magnitude(hashed.hash))
          /\ hashed'.result = simpleHash(hashed.str)
          /\ (hashed.hash = <<Half \div 2, 0>>) =>
               hashed'.result = <<"z", "i", "k", "0", "z", "k">>]_vars

\* A string has been hashed whose intermediate value left the 32-bit range and whose
\* final hash is -2^31.
C26_Witness ==
  /\ hashed.pc = "done"
  /\ hashed.left
  /\ hashed.hash = <<Half \div 2, 0>>
  /\ hashed.result = <<"z", "i", "k", "0", "z", "k">>

(***************************************************************************)
(* The pipeline under fair scheduling: a suspension timer that is set      *)
(* fires, and the synchronous code between two suspensions runs on.        *)
(***************************************************************************)
\* The points of the invocation that are not suspensions.
SyncPoints == {"start", "signatures", "grouping", "categorize", "final"}

\* A step of the synchronous code: Call, SignatureBatch, GroupBySignature,
\* Categorize or FinalReport, each of which leaves its point or moves index on.
RunsOn == pc \in SyncPoints /\ <<pc, index>>' # <<pc, index>>

\* Libraries of one or two photos of every kind, and the longest library (two
\* chunks of signatures, two suspensions of the categorization).
FairInputs == {<<>>, SameThenVariants(MaxLen, 0)} \cup SmallInputs

FairInit == Init /\ photos \in FairInputs

\* The two timers fire (weak fairness of the resumptions), and the synchronous
\* code is never left waiting: it is enabled exactly at the SyncPoints, so its weak
\* fairness is that the invocation leaves them or steps again and again.
FairSpec ==
  /\ FairInit
  /\ [][Next]_vars
  /\ WF_vars(ResumeSignatures)
  /\ WF_vars(ResumeCategorize)
  /\ ([]<>(pc \notin SyncPoints) \/ []<><<RunsOn>>_vars)

\* The invocation has reported 100, if it has a callback, and has returned.
ReportedAndReturned ==
  /\ Returned
  /\ onProgress => (Len(reported) > 0 /\ reported[Len(reported)] = 100)

\* C27: on a non-empty input, every suspension timer firing, an invocation whose
\* callback does not raise eventually reports 100 and returns its output.
C27_Terminates ==
  (~NothingGiven) => <>(error = "callback" \/ ReportedAndReturned)

\* The same for the inputs whose records all have a uri.
TerminatesOnSoundRecords ==
  (~NothingGiven /\ ~HasBadRecord) => <>(error = "callback" \/ ReportedAndReturned)

\* The groups the photo at position i of the output is a member of.
GroupsOf(i) == {g \in DOMAIN groups : i \in Range(groups[g])}

\* C28: in the result of getDuplicateGroups on a pipeline output with pairwise
\* distinct ids, every photo flagged isDuplicate is a member of exactly one group.
C28_ClusterCoverage ==
  ("groups" \in derived /\ DistinctIds) =>
    \A i \in DOMAIN categorized :
      categorized[i].isDuplicate => Cardinality(GroupsOf(i)) = 1

\* C29: in a returned output of two photos neither of which is a duplicate, both
\* are labelled similar or neither is.
C29_SimilaritySymmetric ==
  (/\ Returned
   /\ Len(categorized) = 2
   /\ ~categorized[1].isDuplicate
   /\ ~categorized[2].isDuplicate) =>
    (Labelled(1, PhotoCategory.SIMILAR) <=> Labelled(2, PhotoCategory.SIMILAR))

(***************************************************************************)
(* Two storage calls in progress at once (two swipes, or a swipe and an    *)
(* undo, before the first call has completed)                              *)
(***************************************************************************)
Callers == {1, 2}

\* The list a session starts with: nothing stored, or one entry marked earlier.
PriorLists == {<<>>, StoredForm(<<[deletedAt |-> <<NowMinute, 0>>] @@ StorablePhoto(0)>>)}

NoCall == [op |-> "none", pc |-> "idle", photo |-> [id |-> 0], deleted |-> <<>>,
           failed |-> FALSE]

RaceInit ==
  /\ PipelineIdle
  /\ NoViews
  /\ NoOverlap
  /\ storageCall = [op |-> "none", pc |-> "done"]
  /\ hashed = [str |-> <<>>, i |-> 0, hash |-> <<0, 0>>]
  /\ \E list \in PriorLists : stored = [present |-> Len(list) > 0, list |-> list]
  /\ storageCalls = [c \in Callers |-> NoCall]

\* handleSwipe of caller c reaches `await saveDeletedPhoto(photo)`.
RaceSave(c) ==
  /\ storageCalls[c].pc = "idle"
  /\ \E i \in 1..MaxIds :
       storageCalls' = [storageCalls EXCEPT
         ![c] = [NoCall EXCEPT !.op = "save", !.pc = "read", !.photo = StorablePhoto(i)]]
  /\ UNCHANGED <<stored, storageCall, hashed, pipelineVars, viewVars, overlapVars>>

\* handleUndo of caller c reaches `await restorePhoto(photoId)`.
RaceRestore(c) ==
  /\ storageCalls[c].pc = "idle"
  /\ \E photoId \in 0..MaxIds :
       storageCalls' = [storageCalls EXCEPT
         ![c] = [NoCall EXCEPT !.op = "restore", !.pc = "read", !.photo = [id |-> photoId]]]
  /\ UNCHANGED <<stored, storageCall, hashed, pipelineVars, viewVars, overlapVars>>

\* The getItem of caller c is served and its call goes on to the setItem, with the
\* list it has read: deleted.push(...) or deleted.filter(...).
RaceRead(c) ==
  /\ storageCalls[c].pc = "read"
  /\ \E rejected \in Rejections, now \in ClockValues :
       storageCalls' = [storageCalls EXCEPT
         ![c].pc = "write",
         ![c].failed = rejected,
         ![c].deleted =
            IF storageCalls[c].op = "save"
            THEN Append(getDeletedPhotos(stored, rejected),
                        [deletedAt |-> now] @@ storageCalls[c].photo)
            ELSE WithoutId(getDeletedPhotos(stored, rejected), storageCalls[c].photo.id)]
  /\ UNCHANGED <<stored, storageCall, hashed, pipelineVars, viewVars, overlapVars>>

\* The setItem of caller c is served, and its call completes.
RaceWrite(c) ==
  /\ storageCalls[c].pc = "write"
  /\ \E rejected \in Rejections :
       /\ stored' = IF rejected THEN stored
                    ELSE [present |-> TRUE, list |-> StoredForm(storageCalls[c].deleted)]
       /\ storageCalls' = [storageCalls EXCEPT
            ![c].pc = "done",
            ![c].failed = @ \/ rejected]
  /\ UNCHANGED <<storageCall, hashed, pipelineVars, viewVars, overlapVars>>

RaceNext ==
  \E c \in Callers : RaceSave(c) \/ RaceRestore(c) \/ RaceRead(c) \/ RaceWrite(c)

RaceSpec == RaceInit /\ [][RaceNext]_vars

\* Both calls have completed, no storage operation having rejected, and they are
\* about different ids.
BothCompleted ==
  /\ \A c \in Callers : storageCalls[c].pc = "done" /\ ~storageCalls[c].failed
  /\ storageCalls[1].photo.id # storageCalls[2].photo.id
  /\ \E c \in Callers : storageCalls[c].op = "save"

\* C30: after two calls about different ids have completed, at least one of them a
\* saveDeletedPhoto, whatever the order of their reads and writes, every saved
\* photo is in the stored list and a restored id is not.
C30_NoLostUpdate ==
  BothCompleted =>
    \A c \in Callers :
      IF storageCalls[c].op = "save"
      THEN HasId(stored.list, storageCalls[c].photo.id)
      ELSE ~HasId(stored.list, storageCalls[c].photo.id)

====
